---- MODULE Spec2Model ----
(***************************************************************************)
(* Model of Execution_diagram.py (the base variant) and                    *)
(* Execution_diagram_iteration.py (the sequenced variant): the symbol      *)
(* table pass, the per-file AST visitor and the assembly of the graph.     *)
(***************************************************************************)
EXTENDS Naturals, Sequences, FiniteSets, TLC

VARIABLES
    variant,                \* "base" (Execution_diagram.py) or "seq" (Execution_diagram_iteration.py)
    py_files,               \* analyze_project: the list of .py paths found by os.walk('.')
    disk,                   \* the file system: path -> source text
    pc,                     \* position of the script: "build", "analyze", "assemble", "done", "aborted"
    error,                  \* the exception that ended the run, "" when none
    bi,                     \* build_function_to_file_map: index of the next file of its loop
    ai,                     \* analyze_project: index of the next file of its parse loop
    func_to_file,           \* the symbol table (a dict: name -> absolute path)
    visitors,               \* analyze_project: absolute path -> ExecutionFlowVisitor
    call_sequence_counter,  \* the global counter of the sequenced variant
    dot,                    \* the Digraph handed to the renderer
    edited                  \* the paths rewritten on disk between the two passes

vars == <<variant, py_files, disk, pc, error, bi, ai, func_to_file, visitors,
          call_sequence_counter, dot, edited>>

\* ---- bounds ------------------------------------------------------------
MaxFiles == 3
MaxEdits == 1

\* ---- python values -------------------------------------------------------
\* Python computes a value before the next statement runs: Done(v) holds of
\* every dict, record or sequence v, once v has been computed.
Done(v) == DOMAIN v = DOMAIN v

None == "<None>"
Truthy(x) == x # None /\ x # ""

\* ---- paths ---------------------------------------------------------------
Names == <<"a.py", "b.py", "c.py", "d.py", "e.py">>
Cwd == "/proj"

\* os.path.join(root, file) for root '.'
PathJoin(file) == "./" \o file

\* os.path.abspath: a path relative to the working directory is anchored
\* there and normalised; an absolute path is returned as it is.
Abspath(p) ==
    IF \E i \in 1..Len(Names) : p = PathJoin(Names[i])
    THEN Cwd \o "/" \o Names[CHOOSE i \in 1..Len(Names) : p = PathJoin(Names[i])]
    ELSE p

\* ---- syntax trees ----------------------------------------------------------
\* An ast node: its class, its identifier (name, id, attr or module; "" when
\* it has none) and its child nodes in the order of ast.iter_child_nodes.
Node(type, name, kids) == [type |-> type, name |-> name, kids |-> kids]

Name(id) == Node("Name", id, <<>>)
Constant == Node("Constant", "", <<>>)
Attribute(value, attr) == Node("Attribute", attr, <<value>>)
Subscript(value) == Node("Subscript", "", <<value, Constant>>)
Call(func, args) == Node("Call", "", <<func>> \o args)
Expr(value) == Node("Expr", "", <<value>>)
Pass == Node("Pass", "", <<>>)
FunctionDef(name, body) == Node("FunctionDef", name, body)
ClassDef(name, body) == Node("ClassDef", name, body)
Alias(name) == Node("alias", name, <<>>)
Import(names) == Node("Import", "", names)
ImportFrom(module, names) == Node("ImportFrom", module, names)
Module(body) == Node("Module", "", body)

\* def helper(): print("x")
\* def join(): pass
TreeHelper ==
    Module(<< FunctionDef("helper", <<Expr(Call(Name("print"), <<Constant>>))>>),
              FunctionDef("join", <<Pass>>) >>)

\* class Worker:
\*     def run(self):
\*         def inner(): pass
\*         logging.info("x")
\* def Foo(): pass
TreeWorker ==
    Module(<< ClassDef("Worker",
                <<FunctionDef("run",
                    << FunctionDef("inner", <<Pass>>),
                       Expr(Call(Attribute(Name("logging"), "info"), <<Constant>>)) >>)>>),
              FunctionDef("Foo", <<Pass>>) >>)

\* import os
\* from pkg import mod
\* def main():
\*     helper(); cfunc(); main(); foo()
TreeMain ==
    Module(<< Import(<<Alias("os")>>),
              ImportFrom("pkg", <<Alias("mod")>>),
              FunctionDef("main",
                << Expr(Call(Name("helper"), <<>>)),
                   Expr(Call(Name("cfunc"), <<>>)),
                   Expr(Call(Name("main"), <<>>)),
                   Expr(Call(Name("foo"), <<>>)) >>) >>)

\* from . import os
\* def cfunc(): helper()
\* def main(): pass
TreeC ==
    Module(<< ImportFrom(None, <<Alias("os")>>),
              FunctionDef("cfunc", <<Expr(Call(Name("helper"), <<>>))>>),
              FunctionDef("main", <<Pass>>) >>)

\* Worker().run()
TreeCallWorker ==
    Module(<< Expr(Call(Attribute(Call(Name("Worker"), <<>>), "run"), <<>>)) >>)

\* "x".join(a)
\* a[0]()
\* a[0].print()
\* Worker.run(w)
TreeShapes ==
    Module(<< Expr(Call(Attribute(Constant, "join"), <<Name("a")>>)),
              Expr(Call(Subscript(Name("a")), <<>>)),
              Expr(Call(Attribute(Subscript(Name("a")), "print"), <<>>)),
              Expr(Call(Attribute(Name("Worker"), "run"), <<Name("w")>>)) >>)

\* class Outer:
\*     def before(self): helper()
\*     class Inner:
\*         def deep(self): pass
\*     def after(self): helper()
TreeNested ==
    Module(<< ClassDef("Outer",
                << FunctionDef("before", <<Expr(Call(Name("helper"), <<>>))>>),
                   ClassDef("Inner", <<FunctionDef("deep", <<Pass>>)>>),
                   FunctionDef("after", <<Expr(Call(Name("helper"), <<>>))>>) >>) >>)

\* The source texts a file may hold; "SrcBad" is not valid Python.
GoodSources == {"SrcHelper", "SrcWorker", "SrcMain", "SrcC", "SrcCallWorker", "SrcShapes"}
Sources == GoodSources \cup {"SrcBad"}

\* The source texts of the runs on a class body that holds a nested class
NestedSources == {"SrcNested", "SrcHelper", "SrcMain", "SrcBad"}

\* ast.parse raises SyntaxError on a text that is not valid Python
ParseRaises(source_code) == source_code = "SrcBad"

\* ast.parse(source_code) on a valid text
AstParse(source_code) ==
    CASE source_code = "SrcHelper" -> TreeHelper
      [] source_code = "SrcWorker" -> TreeWorker
      [] source_code = "SrcMain" -> TreeMain
      [] source_code = "SrcC" -> TreeC
      [] source_code = "SrcCallWorker" -> TreeCallWorker
      [] source_code = "SrcShapes" -> TreeShapes
      [] source_code = "SrcNested" -> TreeNested

\* The child nodes of the nodes of one level, in order
RECURSIVE KidsOf(_)
KidsOf(nodes) == IF nodes = <<>> THEN <<>> ELSE Head(nodes).kids \o KidsOf(Tail(nodes))

\* ast.walk: the nodes of the tree, breadth first, that is level by level
RECURSIVE WalkLevels(_)
WalkLevels(level) == IF level = <<>> THEN <<>> ELSE level \o WalkLevels(KidsOf(level))

AstWalk(tree) == WalkLevels(<<tree>>)

\* ---- dicts -------------------------------------------------------------------
EmptyDict == <<>>

\* d[k] = v: the key is added, or its value replaced
DictSet(d, k, v) == (k :> v) @@ d

\* d.get(k)
DictGet(d, k) == IF k \in DOMAIN d THEN d[k] ELSE None

\* '.'.join(parts)
RECURSIVE Join(_)
Join(parts) ==
    IF parts = <<>> THEN ""
    ELSE IF Len(parts) = 1 THEN parts[1]
    ELSE parts[1] \o "." \o Join(Tail(parts))

\* ---- the symbol table pass -------------------------------------------------
\* build_function_to_file_map, the loop over a class body: each method is
\* recorded under ClassName.MethodName
RECURSIVE RecordMethods(_, _, _, _)
RecordMethods(tbl, class_name, body, file_path) ==
    IF body = <<>> THEN tbl
    ELSE LET body_item == Head(body)
             full_name == class_name \o "." \o body_item.name
         IN RecordMethods(
                IF body_item.type = "FunctionDef"
                THEN DictSet(tbl, full_name, Abspath(file_path))
                ELSE tbl,
                class_name, Tail(body), file_path)

\* build_function_to_file_map, the body of `for node in ast.walk(tree)`
RecordNode(tbl, node, file_path) ==
    IF node.type = "FunctionDef"
    THEN DictSet(tbl, node.name, Abspath(file_path))
    ELSE IF node.type = "ClassDef"
    THEN RecordMethods(DictSet(tbl, node.name, Abspath(file_path)),
                       node.name, node.kids, file_path)
    ELSE tbl

RECURSIVE RecordNodes(_, _, _)
RecordNodes(tbl, nodes, file_path) ==
    IF nodes = <<>> THEN tbl
    ELSE LET recorded == RecordNode(tbl, Head(nodes), file_path)
         IN IF Done(recorded) THEN RecordNodes(recorded, Tail(nodes), file_path) ELSE tbl

\* The nodes the loop over ast.walk(tree) does something for
IsDefinition(node) == node.type \in {"FunctionDef", "ClassDef"}

\* build_function_to_file_map, one iteration of `for file_path in py_files`
BuildFile(tbl, file_path, tree) ==
    RecordNodes(tbl, SelectSeq(AstWalk(tree), IsDefinition), file_path)

\* build_function_to_file_map returns once its loop has taken every file
BuildLoopDoneEarly(i) == i > 1

BuildLoopDone(i) == i > Len(py_files)

\* ---- the visitor ---------------------------------------------------------------
\* ExecutionFlowVisitor.__init__: the file name the visitor records its edges under
FilenameAsGiven(filename) == filename

Filename(filename) == Abspath(filename)

\* ExecutionFlowVisitor.__init__
NewVisitor(filename, table) ==
    [ filename |-> Filename(filename),
      func_to_file |-> table,
      imports |-> {},
      function_calls |-> {},
      outputs |-> {},
      classes |-> {},
      functions |-> {},
      current_class |-> None,
      current_function |-> None,
      calls_with_sequence |-> <<>> ]

\* The names visit_Call takes for output functions
OutputFunctions == {"print", "logging.info", "logging.debug", "logging.error"}

\* get_attribute_name, its loop: the attrs of the chain, then the base's id
\* when the base is a Name
RECURSIVE AttributeParts(_)
AttributeParts(node) ==
    IF node.type = "Attribute" THEN AttributeParts(node.kids[1]) \o <<node.name>>
    ELSE IF node.type = "Name" THEN <<node.name>>
    ELSE <<>>

get_attribute_name(node) == Join(AttributeParts(node))

\* get_func_name: node.func is the first child of a Call
get_func_name(node) ==
    LET func == node.kids[1]
    IN IF func.type = "Name" THEN func.name
       ELSE IF func.type = "Attribute" THEN get_attribute_name(func)
       ELSE None

\* A table lookup that ignores the case of the first letter of the known names
Lower(s) == CASE s = "Foo" -> "foo" [] s = "Worker" -> "worker" [] OTHER -> s

find_callee_file_nocase(self, func_name) ==
    IF \E k \in DOMAIN self.func_to_file : Lower(k) = Lower(func_name)
    THEN self.func_to_file[CHOOSE k \in DOMAIN self.func_to_file : Lower(k) = Lower(func_name)]
    ELSE None

find_callee_file(self, func_name) == DictGet(self.func_to_file, func_name)

\* visit_Call: `callee_file and callee_file != self.filename`
IsCrossFileNoSelfCheck(callee_file, filename) == Truthy(callee_file)

IsCrossFileInverted(callee_file, filename) == Truthy(callee_file) /\ callee_file = filename

IsCrossFile(callee_file, filename) == Truthy(callee_file) /\ callee_file # filename

\* visit_Call of the sequenced variant: call_sequence_counter += 1
NextSequencePerVisitor(w) == Len(w.self.calls_with_sequence) + 1

NextSequence(w) == w.call_sequence_counter + 1

\* visit_Call, what it records for a cross-file call; w is the walk's state:
\* the visitor (self) and the global counter
RecordCall(w, callee_file) ==
    IF variant = "base"
    THEN [w EXCEPT !.self.function_calls = @ \cup {<<w.self.filename, callee_file>>}]
    ELSE [w EXCEPT !.call_sequence_counter = NextSequence(w),
                   !.self.calls_with_sequence =
                        Append(@, <<NextSequence(w), w.self.filename, callee_file>>)]

RECURSIVE Visit(_, _)
RECURSIVE VisitEach(_, _)

\* NodeVisitor.generic_visit: visit the children in order
generic_visit(w, node) == VisitEach(w, node.kids)

RECURSIVE AddImports(_, _)
AddImports(w, names) ==
    IF names = <<>> THEN w
    ELSE AddImports([w EXCEPT !.self.imports = @ \cup {<<w.self.filename, Head(names)>>}],
                    Tail(names))

visit_Import(w, node) ==
    generic_visit(AddImports(w, [i \in 1..Len(node.kids) |-> node.kids[i].name]), node)

visit_ImportFrom(w, node) ==
    LET module == node.name
        imported(alias) == IF Truthy(module) THEN module \o "." \o alias.name ELSE alias.name
    IN generic_visit(AddImports(w, [i \in 1..Len(node.kids) |-> imported(node.kids[i])]), node)

visit_ClassDef(w, node) ==
    LET w1 == [w EXCEPT !.self.classes = @ \cup {node.name},
                        !.self.current_class = node.name]
        w2 == generic_visit(w1, node)
    IN [w2 EXCEPT !.self.current_class = None]

visit_FunctionDef(w, node) ==
    generic_visit(
        IF w.self.current_class = None
        THEN [w EXCEPT !.self.functions = @ \cup {node.name}]
        ELSE w,
        node)

visit_Call(w, node) ==
    LET func_name == get_func_name(node)
        callee_file == find_callee_file(w.self, func_name)
        w1 == IF IsCrossFile(callee_file, w.self.filename)
              THEN RecordCall(w, callee_file)
              ELSE w
        w2 == IF func_name \in OutputFunctions
              THEN [w1 EXCEPT !.self.outputs = @ \cup {func_name}]
              ELSE w1
    IN generic_visit(IF Truthy(func_name) THEN w2 ELSE w, node)

\* NodeVisitor.visit: dispatch on the node's class
Visit(w, node) ==
    CASE node.type = "Import" -> visit_Import(w, node)
      [] node.type = "ImportFrom" -> visit_ImportFrom(w, node)
      [] node.type = "ClassDef" -> visit_ClassDef(w, node)
      [] node.type = "FunctionDef" -> visit_FunctionDef(w, node)
      [] node.type = "Call" -> visit_Call(w, node)
      [] OTHER -> generic_visit(w, node)

VisitEach(w, nodes) ==
    IF nodes = <<>> THEN w
    ELSE IF Len(nodes) = 1 THEN Visit(w, nodes[1])
    ELSE LET visited == Visit(w, Head(nodes))
         IN IF Done(visited) THEN VisitEach(visited, Tail(nodes)) ELSE w

\* parse_file after ast.parse: a new visitor walks the tree
WalkFile(file_path, table, counter, tree) ==
    Visit([self |-> NewVisitor(file_path, table), call_sequence_counter |-> counter], tree)

\* ---- the module resolver -------------------------------------------------------
\* What importlib.util.find_spec may do for a module name: raise, or return a
\* spec (or None) whose origin is a file of the project, a .py file elsewhere,
\* a file that is no .py file, or None.
OutsideOrigin == "/usr/lib/python3/os.py"
BinaryOrigin == "/usr/lib/python3/_ssl.so"

AnalyzedFiles == {Abspath(py_files[i]) : i \in 1..Len(py_files)}

FindSpecOutcomes ==
    {[raises |-> "", origin |-> o] : o \in AnalyzedFiles \cup {OutsideOrigin, BinaryOrigin, None}}
    \cup {[raises |-> e, origin |-> None] : e \in {"ModuleNotFoundError", "ValueError"}}

\* spec.origin.endswith('.py')
EndsWithPy(origin) == origin \in AnalyzedFiles \cup {OutsideOrigin}

\* find_source_file: the path, None, or the exception it lets through
find_source_file(find_spec, module_name) ==
    LET r == find_spec[module_name]
    IN IF r.raises = "ModuleNotFoundError" THEN [raises |-> "", value |-> None]
       ELSE IF r.raises # "" THEN [raises |-> r.raises, value |-> None]
       ELSE IF Truthy(r.origin) /\ EndsWithPy(r.origin)
            THEN [raises |-> "", value |-> Abspath(r.origin)]
            ELSE [raises |-> "", value |-> None]

\* ---- the graph ------------------------------------------------------------------
EmptyGraph == [nodes |-> {}, edges |-> <<>>]

\* os.path.basename of an analyzed file
Basename(file_path) ==
    IF \E i \in 1..Len(Names) : file_path = Cwd \o "/" \o Names[i]
    THEN Names[CHOOSE i \in 1..Len(Names) : file_path = Cwd \o "/" \o Names[i]]
    ELSE file_path

\* create_execution_diagram, the label of a node: the file name, then the
\* classes, else the functions, else a placeholder, then the outputs
NodeLabel(file_path, visitor) ==
    [ filename |-> Basename(file_path),
      section |-> IF visitor.classes # {} THEN "classes"
                  ELSE IF visitor.functions # {} THEN "functions"
                  ELSE "(No classes or functions)",
      items |-> IF visitor.classes # {} THEN visitor.classes ELSE visitor.functions,
      outputs |-> visitor.outputs ]

GraphNodes(vs) == {[id |-> f, label |-> NodeLabel(f, vs[f])] : f \in DOMAIN vs}

Edge(tail, head, label, seq, color) ==
    [tail |-> tail, head |-> head, label |-> label, seq |-> seq, color |-> color]

\* The orders in which a loop may take the elements of a set
Orders(S) ==
    {s \in [1..Cardinality(S) -> S] : \A i, j \in 1..Cardinality(S) : i # j => s[i] # s[j]}

\* The sequences a loop over the visitors (in the dict's order), with an inner
\* loop over a set of each, may emit
RECURSIVE EmitOrders(_)
EmitOrders(sets) ==
    IF sets = <<>> THEN {<<>>}
    ELSE {first \o rest : first \in Orders(Head(sets)), rest \in EmitOrders(Tail(sets))}

\* visitors.values(): a dict iterates in insertion order, the order of py_files
VisitorsInOrder(vs) == [i \in 1..Len(py_files) |-> vs[Abspath(py_files[i])]]

\* create_execution_diagram: the `imports` edges of one visitor
ImportEdgesOf(visitor, vs, find_spec) ==
    {Edge(imp[1], find_source_file(find_spec, imp[2]).value, "imports", 0, "blue") :
        imp \in {x \in visitor.imports :
                    /\ Truthy(find_source_file(find_spec, x[2]).value)
                    /\ find_source_file(find_spec, x[2]).value \in DOMAIN vs}}

\* create_execution_diagram: `callee_file and callee_file in visitors`
CalleeIsNode(callee_file, vs) == Truthy(callee_file) /\ callee_file \in DOMAIN vs

\* create_execution_diagram of the base variant: the `calls` edges of one visitor
CallEdgesOf(visitor, vs) ==
    {Edge(c[1], c[2], "calls", 0, "black") :
        c \in {x \in visitor.function_calls : CalleeIsNode(x[2], vs)}}

\* list.sort(key=lambda x: x[0]): a stable sort on the sequence number
RECURSIVE InsertBySeq(_, _)
InsertBySeq(sorted, x) ==
    IF sorted = <<>> THEN <<x>>
    ELSE IF sorted[Len(sorted)][1] <= x[1] THEN Append(sorted, x)
    ELSE Append(InsertBySeq(SubSeq(sorted, 1, Len(sorted) - 1), x), sorted[Len(sorted)])

RECURSIVE SortBySeqFrom(_, _)
SortBySeqFrom(sorted, rest) ==
    IF rest = <<>> THEN sorted
    ELSE SortBySeqFrom(InsertBySeq(sorted, Head(rest)), Tail(rest))

SortBySeq(calls) == SortBySeqFrom(<<>>, calls)

RECURSIVE Flatten(_)
Flatten(lists) == IF lists = <<>> THEN <<>> ELSE Head(lists) \o Flatten(Tail(lists))

\* create_execution_diagram of the sequenced variant: all_calls_with_sequence
AllCallsWithSequence(vs) ==
    LET ordered == VisitorsInOrder(vs)
    IN SortBySeq(Flatten([i \in 1..Len(ordered) |-> ordered[i].calls_with_sequence]))

RECURSIVE SequencedEdges(_, _)
SequencedEdges(calls, vs) ==
    IF calls = <<>> THEN <<>>
    ELSE (IF CalleeIsNode(Head(calls)[3], vs)
          THEN <<Edge(Head(calls)[2], Head(calls)[3], "call", Head(calls)[1], "black")>>
          ELSE <<>>) \o SequencedEdges(Tail(calls), vs)

\* The modules some analyzed file imports
ImportedModules(vs) == {imp[2] : imp \in UNION {vs[f].imports : f \in DOMAIN vs}}

\* find_source_file lets an exception through for some import
ResolverRaises(vs, find_spec) ==
    \E m \in ImportedModules(vs) : find_source_file(find_spec, m).raises # ""

\* The edge lists create_execution_diagram may build
GraphEdges(vs, find_spec) ==
    LET ordered == VisitorsInOrder(vs)
        imports == EmitOrders([i \in 1..Len(ordered) |-> ImportEdgesOf(ordered[i], vs, find_spec)])
        calls == IF variant = "base"
                 THEN EmitOrders([i \in 1..Len(ordered) |-> CallEdgesOf(ordered[i], vs)])
                 ELSE {SequencedEdges(AllCallsWithSequence(vs), vs)}
    IN IF variant = "base"
       THEN {i \o c : i \in imports, c \in calls}
       ELSE {c \o i : i \in imports, c \in calls}

\* ---- the run --------------------------------------------------------------------
Init ==
    /\ variant \in {"base", "seq"}
    /\ \E n \in 1..MaxFiles : py_files = [i \in 1..n |-> PathJoin(Names[i])]
    /\ disk \in [{py_files[i] : i \in 1..Len(py_files)} -> Sources]
    /\ pc = "build"
    /\ error = ""
    /\ bi = 1
    /\ ai = 1
    /\ func_to_file = EmptyDict
    /\ visitors = EmptyDict
    /\ call_sequence_counter = 0
    /\ dot = EmptyGraph
    /\ edited = {}

\* build_function_to_file_map: one file is read, parsed and recorded
BuildStep ==
    /\ pc = "build"
    /\ ~BuildLoopDone(bi)
    /\ ~ParseRaises(disk[py_files[bi]])
    /\ func_to_file' = BuildFile(func_to_file, py_files[bi], AstParse(disk[py_files[bi]]))
    /\ bi' = bi + 1
    /\ pc' = IF BuildLoopDone(bi + 1) THEN "analyze" ELSE "build"
    /\ UNCHANGED <<variant, py_files, disk, error, ai, visitors, call_sequence_counter, dot, edited>>

\* build_function_to_file_map: ast.parse raises, and nothing catches it
BuildStepRaises ==
    /\ pc = "build"
    /\ ~BuildLoopDone(bi)
    /\ ParseRaises(disk[py_files[bi]])
    /\ pc' = "aborted"
    /\ error' = "SyntaxError in build_function_to_file_map"
    /\ UNCHANGED <<variant, py_files, disk, bi, ai, func_to_file, visitors,
                   call_sequence_counter, dot, edited>>

\* The environment: a file is rewritten after the first pass has read it and
\* before the second pass reads it again
FileRewritten ==
    /\ pc = "analyze"
    /\ ai = 1
    /\ Cardinality(edited) < MaxEdits
    /\ \E i \in 1..Len(py_files) :
          /\ py_files[i] \notin edited
          /\ disk' = [disk EXCEPT ![py_files[i]] = "SrcBad"]
          /\ edited' = edited \cup {py_files[i]}
    /\ UNCHANGED <<variant, py_files, pc, error, bi, ai, func_to_file, visitors,
                   call_sequence_counter, dot>>

\* analyze_project: parse_file on one file, and the visitor is kept
ParseFile ==
    /\ pc = "analyze"
    /\ ai <= Len(py_files)
    /\ ~ParseRaises(disk[py_files[ai]])
    /\ LET w == WalkFile(py_files[ai], func_to_file, call_sequence_counter,
                         AstParse(disk[py_files[ai]]))
       IN /\ visitors' = DictSet(visitors, Abspath(py_files[ai]), w.self)
          /\ call_sequence_counter' = w.call_sequence_counter
    /\ ai' = ai + 1
    /\ pc' = IF ai + 1 > Len(py_files) THEN "assemble" ELSE "analyze"
    /\ UNCHANGED <<variant, py_files, disk, error, bi, func_to_file, dot, edited>>

\* parse_file: ast.parse raises, and nothing catches it
ParseFileRaises ==
    /\ pc = "analyze"
    /\ ai <= Len(py_files)
    /\ ParseRaises(disk[py_files[ai]])
    /\ pc' = "aborted"
    /\ error' = "SyntaxError in parse_file"
    /\ UNCHANGED <<variant, py_files, disk, bi, ai, func_to_file, visitors,
                   call_sequence_counter, dot, edited>>

\* create_execution_diagram: nodes, edges, render
CreateExecutionDiagram ==
    /\ pc = "assemble"
    /\ \E find_spec \in [ImportedModules(visitors) -> FindSpecOutcomes] :
          /\ ~ResolverRaises(visitors, find_spec)
          /\ \E edges \in GraphEdges(visitors, find_spec) :
                dot' = [nodes |-> GraphNodes(visitors), edges |-> edges]
    /\ pc' = "done"
    /\ UNCHANGED <<variant, py_files, disk, error, bi, ai, func_to_file, visitors,
                   call_sequence_counter, edited>>

\* create_execution_diagram: find_source_file lets an exception of find_spec
\* through, and nothing is rendered
CreateExecutionDiagramRaises ==
    /\ pc = "assemble"
    /\ \E find_spec \in [ImportedModules(visitors) -> FindSpecOutcomes] :
          ResolverRaises(visitors, find_spec)
    /\ pc' = "aborted"
    /\ error' = "ValueError in find_source_file"
    /\ UNCHANGED <<variant, py_files, disk, bi, ai, func_to_file, visitors,
                   call_sequence_counter, dot, edited>>

Next ==
    \/ BuildStep
    \/ BuildStepRaises
    \/ FileRewritten
    \/ ParseFile
    \/ ParseFileRaises
    \/ CreateExecutionDiagram
    \/ CreateExecutionDiagramRaises

Spec == Init /\ [][Next]_vars

\* The runs on the files of NestedSources
InitNested ==
    /\ variant \in {"base", "seq"}
    /\ \E n \in 1..MaxFiles : py_files = [i \in 1..n |-> PathJoin(Names[i])]
    /\ disk \in [{py_files[i] : i \in 1..Len(py_files)} -> NestedSources]
    /\ pc = "build"
    /\ error = ""
    /\ bi = 1
    /\ ai = 1
    /\ func_to_file = EmptyDict
    /\ visitors = EmptyDict
    /\ call_sequence_counter = 0
    /\ dot = EmptyGraph
    /\ edited = {}

SpecNested == InitNested /\ [][Next]_vars

\* ---- what the claims speak of ------------------------------------------------------
Range(seq) == {seq[i] : i \in 1..Len(seq)}

Files == 1..Len(py_files)
AbsOf(i) == Abspath(py_files[i])
Analyzed(i) == AbsOf(i) \in DOMAIN visitors
TreeOf(i) == AstParse(disk[py_files[i]])

\* The call edges a visitor holds, of either variant
RecordedCalls(visitor) ==
    visitor.function_calls \cup {<<c[2], c[3]>> : c \in Range(visitor.calls_with_sequence)}

IsCallEdge(e) == e.color = "black"
IsImportEdge(e) == e.color = "blue"

\* The call edges of the rendered graph, in emission order
EmittedCalls == SelectSeq(dot.edges, IsCallEdge)

\* The Call nodes of a tree, and the names their callables resolve to
CallNodes(tree) == {n \in Range(AstWalk(tree)) : n.type = "Call"}
ResolvedNames(tree) == {get_func_name(c) : c \in {x \in CallNodes(tree) : Truthy(get_func_name(x))}}

\* A callable expression that is an identifier, or an attribute chain on one
RECURSIVE IdentifierRooted(_)
IdentifierRooted(func) ==
    \/ func.type = "Name"
    \/ func.type = "Attribute" /\ IdentifierRooted(func.kids[1])

RootedNames(tree) ==
    {get_func_name(c) : c \in {x \in CallNodes(tree) : IdentifierRooted(x.kids[1])}}

\* The nodes of a tree in the order a depth-first walk enters them
RECURSIVE Preorder(_)
Preorder(node) ==
    <<node>> \o Flatten([i \in 1..Len(node.kids) |-> Preorder(node.kids[i])])

\* The cross-file calls of file i, in the order its tree walk meets them
CrossCallsOf(i) ==
    LET IsCross(n) == /\ n.type = "Call"
                      /\ Truthy(get_func_name(n))
                      /\ get_func_name(n) \in DOMAIN func_to_file
                      /\ func_to_file[get_func_name(n)] # AbsOf(i)
        sites == SelectSeq(Preorder(TreeOf(i)), IsCross)
    IN [k \in 1..Len(sites) |-> <<AbsOf(i), func_to_file[get_func_name(sites[k])]>>]

\* The definitions of a tree, as the symbol table is meant to hold them
TopLevelFunctions(tree) == {n.name : n \in {x \in Range(tree.kids) : x.type = "FunctionDef"}}
ClassNodes(tree) == {n \in Range(AstWalk(tree)) : n.type = "ClassDef"}
ClassNames(tree) == {n.name : n \in ClassNodes(tree)}
QualifiedNames(tree) ==
    UNION {{c.name \o "." \o m.name : m \in {x \in Range(c.kids) : x.type = "FunctionDef"}} :
            c \in ClassNodes(tree)}
AllDefinitionNames(tree) ==
    {n.name : n \in {x \in Range(AstWalk(tree)) : x.type \in {"FunctionDef", "ClassDef"}}}
    \cup QualifiedNames(tree)

\* The run has left build_function_to_file_map behind
AfterBuild ==
    \/ pc \in {"analyze", "assemble", "done"}
    \/ pc = "aborted" /\ error # "SyntaxError in build_function_to_file_map"

\* ---- C1 ------------------------------------------------------------------------------
\* C1 (as claimed): a file that fails to parse does not abort the run, whether
\* the failure surfaces in build_function_to_file_map or in parse_file.
C1_ParseFailureDoesNotAbort ==
    error \notin {"SyntaxError in build_function_to_file_map", "SyntaxError in parse_file"}

\* ---- C2 ------------------------------------------------------------------------------
\* C2: in every state, in both variants, no recorded call edge and no emitted
\* call edge has its caller file equal to its callee file.
C2_NoSelfLoop ==
    /\ \A f \in DOMAIN visitors : \A c \in RecordedCalls(visitors[f]) : c[1] # c[2]
    /\ \A e \in Range(EmittedCalls) : e.tail # e.head

\* A run in which a file calls a symbol that resolves to itself (main, also
\* defined in an earlier file) and records a call edge to another file.
C2_Witness ==
    /\ pc = "done"
    /\ \E i, j \in Files :
          /\ i # j
          /\ disk[py_files[i]] = "SrcMain"
          /\ disk[py_files[j]] = "SrcC"
          /\ DictGet(func_to_file, "main") = AbsOf(i)
          /\ RecordedCalls(visitors[AbsOf(i)]) # {}

\* ---- C3 ------------------------------------------------------------------------------
\* C3: the call edges of an analyzed file F are exactly the pairs (F, G) for
\* which some call site of F resolves to a name that is, as a whole string, a
\* key of the symbol table mapped to G, with G different from F.
C3_EdgeIffExactKey ==
    \A i \in Files :
        Analyzed(i) =>
            RecordedCalls(visitors[AbsOf(i)]) =
                {<<AbsOf(i), func_to_file[n]>> :
                    n \in {m \in ResolvedNames(TreeOf(i)) :
                              m \in DOMAIN func_to_file /\ func_to_file[m] # AbsOf(i)}}

\* A file calls foo, the table holds Foo and Worker.run but not foo, and the
\* file has call edges, none of them to the file that defines Foo.
C3_Witness ==
    /\ pc = "done"
    /\ "Foo" \in DOMAIN func_to_file
    /\ "Worker.run" \in DOMAIN func_to_file
    /\ "foo" \notin DOMAIN func_to_file
    /\ \E i \in Files :
          /\ disk[py_files[i]] = "SrcMain"
          /\ RecordedCalls(visitors[AbsOf(i)]) # {}
          /\ <<AbsOf(i), func_to_file["Foo"]>> \notin RecordedCalls(visitors[AbsOf(i)])

\* ---- C4 ------------------------------------------------------------------------------
\* The file set {A, B}: A defines class Worker with method run, B is the call
\* Worker().run()
C4_Scenario(a, b) ==
    /\ Len(py_files) = 2
    /\ a \in Files /\ b \in Files
    /\ disk[py_files[a]] = "SrcWorker"
    /\ disk[py_files[b]] = "SrcCallWorker"

\* C4 (as claimed): analyzing {A, B} produces no call edge from B to A.
C4_NoEdgeFromBToA ==
    \A a, b \in Files :
        pc = "done" /\ C4_Scenario(a, b) =>
            ~\E e \in Range(EmittedCalls) : e.tail = AbsOf(b) /\ e.head = AbsOf(a)

\* C4 (amended): analyzing {A, B} produces a call edge from B to A, and B
\* records no other call edge.
C4_EdgeFromBToA ==
    \A a, b \in Files :
        pc = "done" /\ C4_Scenario(a, b) =>
            /\ \E e \in Range(EmittedCalls) : e.tail = AbsOf(b) /\ e.head = AbsOf(a)
            /\ RecordedCalls(visitors[AbsOf(b)]) = {<<AbsOf(b), AbsOf(a)>>}

C4_Witness == pc = "done" /\ \E a, b \in Files : C4_Scenario(a, b)

\* ---- C5 ------------------------------------------------------------------------------
\* C5: in the sequenced variant the emitted call edges carry the numbers
\* 1, 2, 3, ... in emission order (so strictly increasing and distinct), and
\* they are the cross-file call sites in the order visited: files in processing
\* order, each file's call sites in its tree-walk order.
C5_SequenceOrder ==
    variant = "seq" /\ pc = "done" =>
        LET expected == Flatten([i \in Files |-> CrossCallsOf(i)])
        IN /\ Len(EmittedCalls) = Len(expected)
           /\ \A k \in 1..Len(EmittedCalls) :
                 /\ EmittedCalls[k].seq = k
                 /\ EmittedCalls[k].tail = expected[k][1]
                 /\ EmittedCalls[k].head = expected[k][2]
           /\ \A j, k \in 1..Len(EmittedCalls) :
                 j < k => EmittedCalls[j].seq < EmittedCalls[k].seq

\* Three cross-file calls among three files, C->A, B->A, B->C in the order
\* visited, emitted in that order with the numbers 1, 2, 3.
C5_Witness ==
    /\ variant = "seq"
    /\ pc = "done"
    /\ Len(EmittedCalls) = 3
    /\ \E a, b, c \in Files :
          /\ a # b /\ b # c /\ a # c
          /\ [k \in 1..3 |-> <<EmittedCalls[k].seq, EmittedCalls[k].tail, EmittedCalls[k].head>>]
                = << <<1, AbsOf(c), AbsOf(a)>>, <<2, AbsOf(b), AbsOf(a)>>, <<3, AbsOf(b), AbsOf(c)>> >>

\* ---- C6 ------------------------------------------------------------------------------
\* C6: both endpoints of every call edge handed to the renderer are files of
\* the analyzed set and nodes of the graph.
C6_EndpointsAreNodes ==
    pc = "done" =>
        \A e \in Range(EmittedCalls) :
            /\ e.tail \in AnalyzedFiles /\ e.head \in AnalyzedFiles
            /\ e.tail \in {n.id : n \in dot.nodes} /\ e.head \in {n.id : n \in dot.nodes}

C6_Witness == pc = "done" /\ EmittedCalls # <<>>

\* ---- C7 ------------------------------------------------------------------------------
\* C7 (as claimed): an import the resolver cannot resolve raises no failure:
\* the run completes and renders.
C7_UnresolvedImportRaisesNothing == error # "ValueError in find_source_file"

\* ---- C8 ------------------------------------------------------------------------------
\* The table holds every definition of every file, each mapped to the last
\* file of py_files that defines it
TableComplete ==
    /\ DOMAIN func_to_file = UNION {AllDefinitionNames(TreeOf(i)) : i \in Files}
    /\ \A k \in DOMAIN func_to_file :
          \E i \in Files :
              /\ k \in AllDefinitionNames(TreeOf(i))
              /\ func_to_file[k] = AbsOf(i)
              /\ \A j \in Files : j > i => k \notin AllDefinitionNames(TreeOf(j))

\* C8: when the analysis of the files starts (every call-site lookup happens
\* there), the symbol-table pass has taken every file and the table has the
\* definitions of every file; from then on no entry is added, removed or changed.
C8_TwoPass ==
    /\ [](pc = "analyze" /\ edited = {} => TableComplete)
    /\ [][ /\ (pc = "build" /\ pc' # "build" /\ pc' # "aborted" => bi = Len(py_files))
           /\ (AfterBuild => func_to_file' = func_to_file) ]_vars

\* A run of several files in which a lookup found its name, after the build
C8_Witness ==
    /\ pc = "done"
    /\ Len(py_files) >= 2
    /\ \E f \in DOMAIN visitors : RecordedCalls(visitors[f]) # {}

\* ---- C9 ------------------------------------------------------------------------------
\* C9 (as claimed): a call whose callable is neither an identifier nor an
\* attribute chain on an identifier contributes no call edge and no output
\* usage: the edges and outputs of a file come from its other call sites alone.
C9_ComputedCallableUnresolved ==
    \A i \in Files :
        Analyzed(i) =>
            /\ RecordedCalls(visitors[AbsOf(i)]) \subseteq
                  {<<AbsOf(i), DictGet(func_to_file, n)>> : n \in RootedNames(TreeOf(i))}
            /\ visitors[AbsOf(i)].outputs \subseteq RootedNames(TreeOf(i))

\* ---- C10 -----------------------------------------------------------------------------
\* C10 (as claimed): after the symbol-table pass every key of the table is a
\* top-level function name, a class name, or a qualified ClassName.MethodName;
\* no method is recorded under its plain name and no nested function is recorded.
C10_PlainKeysAreTopLevel ==
    pc = "analyze" /\ edited = {} =>
        \A k \in DOMAIN func_to_file :
            \E i \in Files :
                k \in TopLevelFunctions(TreeOf(i)) \cup ClassNames(TreeOf(i))
                        \cup QualifiedNames(TreeOf(i))

\* ---- C11 -----------------------------------------------------------------------------
\* The names of the function definitions that lie in a class body
MethodNames(tree) ==
    UNION {{m.name : m \in {x \in Range(c.kids) : x.type = "FunctionDef"}} :
            c \in ClassNodes(tree)}

\* The call sites in the bodies of the methods of a tree
MethodCallNodes(tree) ==
    UNION {UNION {CallNodes(m) : m \in {x \in Range(c.kids) : x.type = "FunctionDef"}} :
            c \in ClassNodes(tree)}

\* Every method is traversed: a call in a method's body to a name the table
\* maps to another file is a call edge of the file.
C11_MethodsTraversed ==
    \A i \in Files :
        Analyzed(i) =>
            \A c \in MethodCallNodes(TreeOf(i)) :
                LET n == get_func_name(c)
                IN Truthy(n) /\ n \in DOMAIN func_to_file /\ func_to_file[n] # AbsOf(i) =>
                      <<AbsOf(i), func_to_file[n]>> \in RecordedCalls(visitors[AbsOf(i)])

\* C11 (as claimed): the top-level function set of every analyzed file holds
\* no name of a function definition that lies in a class body, whatever the
\* class body holds, a nested class followed by further methods included
\* (and the methods are traversed).
C11_NoMethodInFunctions ==
    /\ C11_MethodsTraversed
    /\ \A i \in Files :
          Analyzed(i) => visitors[AbsOf(i)].functions \cap MethodNames(TreeOf(i)) = {}

====
